---------------------------- MODULE Spec2Model ----------------------------
(***************************************************************************)
(* The 2x2-table calculator of the health outcomes navigator (App.tsx):    *)
(* the form state of the App component, its event handlers, and the metric *)
(* computation that handleCalculate performs.                              *)
(*                                                                         *)
(* Numbers.  The code computes in IEEE doubles.  Every quantity the code   *)
(* obtains from the cell counts with + - * / alone (risks, risk            *)
(* difference, relative risk, odds ratio, NNT, impact values, pooled       *)
(* proportion, variances) is modelled as an exact rational <<n, d>> in     *)
(* lowest terms with d > 0.  For the counts of the model (below 2^26) two  *)
(* such quotients are equal as doubles exactly when they are equal as      *)
(* rationals, so every branch of the code is decided as the code decides   *)
(* it.                                                                     *)
(***************************************************************************)
EXTENDS Integers, Sequences, FiniteSets, Bags, TLC

VARIABLES inputs, studyGoal, studyDesign, aiModel, results, error,
          isCalculating, isInterpreting, aiInterpretation,
          aiNarrativeSummary, currentPage, language,
          \* one application of a module-level function of the file
          \* (normalCDF, calculatePValueFromZ, calculateRequiredSampleSize):
          \* its name, its arguments and, once applied, what it returned
          call,
          \* the AI requests awaited by handleRequestSummary and
          \* handleRequestReport and not yet answered: a bag of the arguments
          \* of the calls of fetchAiNarrativeSummary and fetchAiInterpretation
          requests

vars == <<inputs, studyGoal, studyDesign, aiModel, results, error,
          isCalculating, isInterpreting, aiInterpretation,
          aiNarrativeSummary, currentPage, language, call, requests>>

(***************************************************************************)
(* Bounds of the model.                                                    *)
(***************************************************************************)
\* the largest count typed into a cell of the table
MaxCount == 3

(***************************************************************************)
(* Null values.  A nullable string (studyGoal, studyDesign) is the string  *)
(* nullStr when null; a nullable object (results and each of its fields)   *)
(* and a nullable AI text, which is held as a record, is the record null   *)
(* when null.                                                              *)
(***************************************************************************)
nullStr == "null"
null == [isNull |-> TRUE]

StudyGoals == {"desirable", "undesirable"}
StudyDesigns == {"rct", "non-rct", "cohort-prospective",
                 "cohort-retrospective", "case-control"}
AiModels == {"gemini-2.5-flash", "gemini-2.5-pro"}
Languages == {"en", "uk", "ru"}
Pages == {"calculator", "interpretation", "narrativeSummary", "howToUse"}
Cells == {"a", "b", "c", "d"}

(***************************************************************************)
(* Exact rational arithmetic.                                              *)
(***************************************************************************)
Abs(n) == IF n < 0 THEN -n ELSE n

RECURSIVE GCD(_, _)
GCD(m, n) == IF n = 0 THEN m ELSE GCD(n, m % n)

\* the rational n/d in lowest terms with a positive denominator; a zero
\* denominator is what the division of doubles gives: <<1, 0>> and <<-1, 0>>
\* are Infinity and -Infinity (x / 0), <<0, 0>> is NaN (0 / 0)
Rat(n, d) ==
    LET g == IF n = 0 /\ d = 0 THEN 1 ELSE GCD(Abs(n), Abs(d))
        s == IF d < 0 THEN -1 ELSE 1
    IN  <<s * (n \div g), s * (d \div g)>>

RInt(n) == <<n, 1>>
RAdd(x, y) == Rat(x[1] * y[2] + y[1] * x[2], x[2] * y[2])
RSub(x, y) == Rat(x[1] * y[2] - y[1] * x[2], x[2] * y[2])
RMul(x, y) == Rat(x[1] * y[1], x[2] * y[2])
RDiv(x, y) == Rat(x[1] * y[2], x[2] * y[1])
RLt(x, y) == x[1] * y[2] < y[1] * x[2]
RAbs(x) == <<Abs(x[1]), x[2]>>
RZero == RInt(0)
ROne == RInt(1)

(***************************************************************************)
(* The text of a number input and parseInt(text, 10).  A text is a         *)
(* sequence of characters.                                                 *)
(***************************************************************************)
DigitChars == <<"0", "1", "2", "3", "4", "5", "6", "7", "8", "9">>

\* the value of a decimal digit, -1 for any other character
DigitValue(ch) ==
    IF \E i \in 1..10 : DigitChars[i] = ch
    THEN (CHOOSE i \in 1..10 : DigitChars[i] = ch) - 1
    ELSE -1

NaN == [nan |-> TRUE, v |-> 0]
Num(n) == [nan |-> FALSE, v |-> n]

\* the value of the longest run of digits of s that starts at position i
RECURSIVE ParseDigits(_, _, _)
ParseDigits(s, i, acc) ==
    IF i > Len(s) \/ DigitValue(s[i]) < 0
    THEN acc
    ELSE ParseDigits(s, i + 1, acc * 10 + DigitValue(s[i]))

\* parseInt(s, 10): an optional sign, then the leading digits; NaN when no
\* digit follows the sign.  What follows the digits is ignored.
parseInt(s) ==
    LET signed == Len(s) > 0 /\ s[1] \in {"-", "+"}
        start == IF signed THEN 2 ELSE 1
        sign == IF Len(s) > 0 /\ s[1] = "-" THEN -1 ELSE 1
    IN  IF start > Len(s) \/ DigitValue(s[start]) < 0
        THEN NaN
        ELSE Num(sign * ParseDigits(s, start, 0))

\* the texts a user types into a cell: nothing, a negative number, a
\* decimal fraction, and the counts 0..MaxCount
CellTexts ==
    {<<>>, <<"-", "1">>, <<"1", ".", "5">>}
        \cup {<<DigitChars[n + 1]>> : n \in 0..MaxCount}

\* the texts typed while the whole App runs: a cell is cleared or set to 1
TypedTexts == {<<>>, <<"1">>}

initialInputs == [k \in Cells |-> <<>>]


(***************************************************************************)
(* Approximate real arithmetic.  What the code computes with Math.sqrt,    *)
(* Math.log, Math.exp and normalCDF is irrational; it is modelled in       *)
(* fixed point, a number x being the integer floor(x * Scale), together    *)
(* with the IEEE values +Infinity, -Infinity and NaN.  The fixed-point     *)
(* values carry an error of a few units of 1/Scale; no branch of the code  *)
(* depends on them.                                                        *)
(***************************************************************************)
\* fixed-point units per 1
Scale == 10000

Fx(n) == [k |-> "num", f |-> n]
PosInfinity == [k |-> "+inf", f |-> 0]
NegInfinity == [k |-> "-inf", f |-> 0]
NotANumber == [k |-> "nan", f |-> 0]

IsFinite(x) == x.k = "num"
IsNaN(x) == x.k = "nan"
\* -1, 0, 1: the sign of a value that is not NaN
Sgn(x) == CASE x.k = "+inf" -> 1
            [] x.k = "-inf" -> -1
            [] OTHER -> IF x.f > 0 THEN 1 ELSE IF x.f < 0 THEN -1 ELSE 0
InfOfSign(s) == IF s > 0 THEN PosInfinity ELSE NegInfinity

\* the fixed-point value of the rational r
\* (a denominator too large to scale is first shortened, with its numerator)
FromRat(r) ==
    LET cut == (r[2] \div 200000) + 1
        n == r[1] \div cut
        d == r[2] \div cut
    IN  IF r[2] = 0
        THEN IF r[1] = 0 THEN NotANumber ELSE InfOfSign(r[1])
        ELSE Fx((n \div d) * Scale + ((n % d) * Scale) \div d)

\* floor(m * n / Scale) for m, n >= 0, without an intermediate m * n
MulScaled(m, n) ==
    LET big == IF m > n THEN m ELSE n
        small == IF m > n THEN n ELSE m
    IN  (big \div Scale) * small + ((big % Scale) * small) \div Scale

FNeg(x) == CASE x.k = "num" -> Fx(-x.f)
             [] x.k = "+inf" -> NegInfinity
             [] x.k = "-inf" -> PosInfinity
             [] OTHER -> NotANumber

Math_abs(x) == CASE x.k = "num" -> Fx(Abs(x.f))
                 [] x.k = "nan" -> NotANumber
                 [] OTHER -> PosInfinity

FAdd(x, y) ==
    CASE IsNaN(x) \/ IsNaN(y) -> NotANumber
      [] IsFinite(x) /\ IsFinite(y) -> Fx(x.f + y.f)
      [] IsFinite(x) -> y
      [] IsFinite(y) -> x
      [] OTHER -> IF x.k = y.k THEN x ELSE NotANumber

FSub(x, y) == FAdd(x, FNeg(y))

FMul(x, y) ==
    CASE IsNaN(x) \/ IsNaN(y) -> NotANumber
      [] IsFinite(x) /\ IsFinite(y) ->
            Fx(Sgn(x) * Sgn(y) * MulScaled(Abs(x.f), Abs(y.f)))
      [] OTHER -> IF Sgn(x) = 0 \/ Sgn(y) = 0
                  THEN NotANumber
                  ELSE InfOfSign(Sgn(x) * Sgn(y))

\* x / y; a zero divisor is +0
FDiv(x, y) ==
    CASE IsNaN(x) \/ IsNaN(y) -> NotANumber
      [] IsFinite(x) /\ IsFinite(y) ->
            IF y.f = 0
            THEN IF x.f = 0 THEN NotANumber ELSE InfOfSign(Sgn(x))
            ELSE Fx(Sgn(x) * Sgn(y) * ((Abs(x.f) * Scale) \div Abs(y.f)))
      [] IsFinite(x) -> Fx(0)
      [] IsFinite(y) -> InfOfSign(Sgn(x) * (IF y.f < 0 THEN -1 ELSE 1))
      [] OTHER -> NotANumber

\* x < y, FALSE when either is NaN
FLt(x, y) ==
    CASE IsNaN(x) \/ IsNaN(y) -> FALSE
      [] IsFinite(x) /\ IsFinite(y) -> x.f < y.f
      [] x.k = y.k -> FALSE
      [] OTHER -> x.k = "-inf" \/ y.k = "+inf"

\* floor(sqrt(n)) for n >= 0, by bisection on lo..hi
RECURSIVE ISqrtIn(_, _, _)
ISqrtIn(n, lo, hi) ==
    IF lo >= hi
    THEN lo
    ELSE LET mid == (lo + hi + 1) \div 2
         IN  IF mid * mid <= n
             THEN ISqrtIn(n, mid, hi)
             ELSE ISqrtIn(n, lo, mid - 1)

ISqrt(n) == ISqrtIn(n, 0, 46340)

Math_sqrt(x) ==
    CASE IsNaN(x) \/ Sgn(x) < 0 -> NotANumber
      [] x.k = "+inf" -> PosInfinity
      [] OTHER -> Fx(ISqrt(x.f * Scale))

\* exp(r) for a fixed-point 0 <= r < ln 2: the Taylor series to r^8/8!
ExpSeries(r) ==
    LET t(n, prev) == MulScaled(prev, r) \div n
        t1 == r
        t2 == t(2, t1)
        t3 == t(3, t2)
        t4 == t(4, t3)
        t5 == t(5, t4)
        t6 == t(6, t5)
        t7 == t(7, t6)
        t8 == t(8, t7)
    IN  Scale + t1 + t2 + t3 + t4 + t5 + t6 + t7 + t8

RECURSIVE Pow2(_)
Pow2(k) == IF k = 0 THEN 1 ELSE 2 * Pow2(k - 1)

\* ln 2 in fixed point
Ln2 == (6931 * Scale) \div 10000

Math_exp(x) ==
    CASE IsNaN(x) -> NotANumber
      [] x.k = "+inf" -> PosInfinity
      [] x.k = "-inf" -> Fx(0)
      [] OTHER ->
            LET k == x.f \div Ln2
                r == x.f % Ln2
            IN  IF k < -20 THEN Fx(0)
                ELSE IF k > 16 THEN PosInfinity
                ELSE IF k >= 0 THEN Fx(ExpSeries(r) * Pow2(k))
                ELSE Fx(ExpSeries(r) \div Pow2(-k))

\* ln(m / Scale) for Scale <= m < 2 * Scale: 2 * atanh((m - 1)/(m + 1))
LnSeries(m) ==
    LET y == ((m - Scale) * Scale) \div (m + Scale)
        y2 == MulScaled(y, y)
        y3 == MulScaled(y, y2)
        y5 == MulScaled(y3, y2)
        y7 == MulScaled(y5, y2)
    IN  2 * (y + y3 \div 3 + y5 \div 5 + y7 \div 7)

\* ln(m / Scale) for m > 0, k counting the halvings made so far
RECURSIVE LnReduce(_, _)
LnReduce(m, k) ==
    IF m >= 2 * Scale THEN LnReduce(m \div 2, k + 1)
    ELSE IF m < Scale THEN LnReduce(m * 2, k - 1)
    ELSE k * Ln2 + LnSeries(m)

Math_log(x) ==
    CASE IsNaN(x) \/ Sgn(x) < 0 -> NotANumber
      [] x.k = "+inf" -> PosInfinity
      [] x.f = 0 -> NegInfinity
      [] OTHER -> Fx(LnReduce(x.f, 0))


(***************************************************************************)
(* A number stored in the results: Exact(r) is a value the code obtains    *)
(* from the counts with + - * / alone, kept as the rational r; every other *)
(* number is a fixed-point value Fx(n) or an IEEE special.                 *)
(***************************************************************************)
Exact(r) == [k |-> "rat", n |-> r[1], d |-> r[2]]

\* the decimal digits of n >= 0
RECURSIVE IntText(_)
IntText(n) ==
    IF n < 10
    THEN <<DigitChars[n + 1]>>
    ELSE IntText(n \div 10) \o <<DigitChars[(n % 10) + 1]>>

\* Number.prototype.toFixed(4)
toFixed4(x) ==
    CASE IsNaN(x) -> <<"N", "a", "N">>
      [] x.k = "+inf" -> <<"I", "n", "f", "i", "n", "i", "t", "y">>
      [] x.k = "-inf" -> <<"-", "I", "n", "f", "i", "n", "i", "t", "y">>
      [] OTHER ->
            LET u == (Abs(x.f) * 10000) \div Scale
                frac == u % 10000
            IN  (IF x.f < 0 THEN <<"-">> ELSE <<>>)
                    \o IntText(u \div 10000) \o <<".">>
                    \o <<DigitChars[(frac \div 1000) + 1],
                         DigitChars[((frac \div 100) % 10) + 1],
                         DigitChars[((frac \div 10) % 10) + 1],
                         DigitChars[(frac % 10) + 1]>>

(***************************************************************************)
(* normalCDF: the standard normal distribution function by the             *)
(* Abramowitz-Stegun approximation of erf.                                 *)
(***************************************************************************)
cdf_p == Fx((32759 * Scale) \div 100000)
cdf_a1 == Fx((25483 * Scale) \div 100000)
cdf_a2 == Fx(-((28450 * Scale) \div 100000))
cdf_a3 == Fx((142141 * Scale) \div 100000)
cdf_a4 == Fx(-((145315 * Scale) \div 100000))
cdf_a5 == Fx((106141 * Scale) \div 100000)
Sqrt2 == Math_sqrt(Fx(2 * Scale))
FOne == Fx(Scale)

normalCDF(x) ==
    LET z == FDiv(x, Sqrt2)
        \* z >= 0 ? 1 : -1, so -1 for NaN
        sign == IF ~IsNaN(z) /\ Sgn(z) >= 0 THEN FOne ELSE FNeg(FOne)
        t == FDiv(FOne, FAdd(FOne, FMul(cdf_p, Math_abs(z))))
        poly == FMul(FAdd(FMul(FAdd(FMul(FAdd(FMul(FAdd(FMul(cdf_a5, t),
                        cdf_a4), t), cdf_a3), t), cdf_a2), t), cdf_a1), t)
        erf == FSub(FOne, FMul(poly, Math_exp(FNeg(FMul(z, z)))))
        \* 0.5 * (1.0 + sign * erf): the half is taken by a division by 2,
        \* which is exact for every Scale
    IN  FDiv(FAdd(FOne, FMul(sign, erf)), Fx(2 * Scale))

\* the text '<0.0001'
BelowThreshold == <<"<", "0", ".", "0", "0", "0", "1">>

\* a slip: the sign of z is kept
calculatePValueFromZ_signed(z) ==
    LET pv == FMul(Fx(2 * Scale), FSub(FOne, normalCDF(z)))
    IN  IF FLt(pv, FromRat(<<1, 10000>>))
        THEN BelowThreshold
        ELSE toFixed4(pv)

calculatePValueFromZ(z) ==
    LET absZ == Math_abs(z)
        pv == FMul(Fx(2 * Scale), FSub(FOne, normalCDF(absZ)))
    IN  IF FLt(pv, FromRat(<<1, 10000>>))
        THEN BelowThreshold
        ELSE toFixed4(pv)


(***************************************************************************)
(* The metric computation of handleCalculate.                              *)
(***************************************************************************)
\* a slip: a cell that is 0 is left as it is
Corrected_none(v) == RInt(v)

\* a slip: a whole unit in place of a cell that is 0
Corrected_wholeUnit(v) == IF v = 0 THEN RInt(1) ELSE RInt(v)

\* the continuity correction of one cell: 0 becomes 0.5
Corrected(v) == IF v = 0 THEN Rat(1, 2) ELSE RInt(v)

\* a slip: the risks are taken from the corrected cells
pointRisk_corrected(events, total) ==
    RDiv(Corrected(events),
         RAdd(Corrected(events), Corrected(total - events)))

\* a / exposedTotal and c / controlTotal: the risk of a group from its
\* raw counts
pointRisk(events, total) == Rat(events, total)

\* 1.96, the critical Z of the two-tailed test at alpha
z_alpha_half == FromRat(<<196, 100>>)
\* 0.05
alpha == <<1, 20>>

\* Math.sqrt of a rational
SqrtRat(r) == Math_sqrt(FromRat(r))

\* a slip: the design is never tested
IncidenceDesign_anyDesign(design) == TRUE

\* whether incidence (risk) can be computed for the design
IncidenceDesign(design) == design # "case-control"

\* { value: rd, lower: rd - 1.96 * se_rd, upper: rd + 1.96 * se_rd }
riskDifference(rd, riskExposed_c, riskControl_c, exposedTotal_c, controlTotal_c) ==
    LET se_rd == SqrtRat(RAdd(
                    RDiv(RMul(riskExposed_c, RSub(ROne, riskExposed_c)),
                         exposedTotal_c),
                    RDiv(RMul(riskControl_c, RSub(ROne, riskControl_c)),
                         controlTotal_c)))
    IN  [value |-> Exact(rd),
         lower |-> FSub(FromRat(rd), FMul(z_alpha_half, se_rd)),
         upper |-> FAdd(FromRat(rd), FMul(z_alpha_half, se_rd))]

\* a slip: the last row pairs ABR with the relative label of another row
impactLabels_mixedRow(goal, rd) ==
    IF goal = "undesirable"
    THEN IF RLt(RZero, rd)
         THEN [absolute |-> "Absolute Risk Increase (ARI)",
               relative |-> "Relative Risk Increase (RRI)"]
         ELSE [absolute |-> "Absolute Risk Reduction (ARR)",
               relative |-> "Relative Risk Reduction (RRR)"]
    ELSE IF RLt(RZero, rd)
         THEN [absolute |-> "Absolute Benefit Increase (ABI)",
               relative |-> "Relative Benefit Increase (RBI)"]
         ELSE [absolute |-> "Absolute Benefit Reduction (ABR)",
               relative |-> "Relative Risk Reduction (RRR)"]

\* the labels of the impact measures for a goal and a nonzero rd
impactLabels(goal, rd) ==
    IF goal = "undesirable"
    THEN IF RLt(RZero, rd)
         THEN [absolute |-> "Absolute Risk Increase (ARI)",
               relative |-> "Relative Risk Increase (RRI)"]
         ELSE [absolute |-> "Absolute Risk Reduction (ARR)",
               relative |-> "Relative Risk Reduction (RRR)"]
    ELSE IF RLt(RZero, rd)
         THEN [absolute |-> "Absolute Benefit Increase (ABI)",
               relative |-> "Relative Benefit Increase (RBI)"]
         ELSE [absolute |-> "Absolute Benefit Reduction (ABR)",
               relative |-> "Relative Benefit Reduction (RBR)"]

\* a slip: the control risk is not tested before dividing by it
impactComputable_noControlTest(riskControl, rd) == rd # RZero

\* riskControl > 0 && rd !== 0
impactComputable(riskControl, rd) == RLt(RZero, riskControl) /\ rd # RZero

\* a slip: the impact measures are left out for a desirable outcome
impactMeasures_undesirableOnly(goal, riskControl, rd) ==
    IF goal = "undesirable" /\ impactComputable(riskControl, rd)
    THEN [absolute |-> [label |-> impactLabels(goal, rd).absolute,
                        value |-> Exact(RAbs(rd))],
          relative |-> [label |-> impactLabels(goal, rd).relative,
                        value |-> Exact(RDiv(RAbs(rd), riskControl))]]
    ELSE null

impactMeasures(goal, riskControl, rd) ==
    IF impactComputable(riskControl, rd)
    THEN LET absoluteValue == RAbs(rd)
             relativeValue == RDiv(absoluteValue, riskControl)
             labels == impactLabels(goal, rd)
         IN  [absolute |-> [label |-> labels.absolute,
                            value |-> Exact(absoluteValue)],
              relative |-> [label |-> labels.relative,
                            value |-> Exact(relativeValue)]]
    ELSE null

\* a slip: the ratio is taken the wrong way round
relativeRiskValue_inverted(riskExposed, riskControl) ==
    IF riskExposed = RZero THEN RZero ELSE RDiv(riskControl, riskExposed)

\* rr: 0 for a zero exposed risk, else riskExposed / riskControl
relativeRiskValue(riskExposed, riskControl) ==
    IF riskExposed = RZero THEN RZero ELSE RDiv(riskExposed, riskControl)

relativeRisk(riskExposed, riskControl, riskExposed_c, riskControl_c, ca, cc) ==
    IF RLt(RZero, riskControl) /\ ~RLt(riskExposed, RZero)
    THEN LET rr == relativeRiskValue(riskExposed, riskControl)
             ln_rr == Math_log(FromRat(rr))
             se_ln_rr == SqrtRat(RAdd(RDiv(RSub(ROne, riskExposed_c), ca),
                                      RDiv(RSub(ROne, riskControl_c), cc)))
             zStat == FDiv(ln_rr, se_ln_rr)
         IN  [value |-> Exact(rr),
              lower |-> Math_exp(FSub(ln_rr, FMul(z_alpha_half, se_ln_rr))),
              upper |-> Math_exp(FAdd(ln_rr, FMul(z_alpha_half, se_ln_rr))),
              pValue |-> calculatePValueFromZ(zStat),
              zStat |-> zStat]
    ELSE null

\* a slip: the sign of rd is read the same way for both goals
nntType_goalIgnored(goal, rd) ==
    IF RLt(rd, RZero) THEN "Benefit" ELSE "Harm"

\* 'Benefit' or 'Harm' for a goal and a nonzero rd
nntType(goal, rd) ==
    IF (goal = "undesirable" /\ RLt(rd, RZero))
        \/ (goal = "desirable" /\ RLt(RZero, rd))
    THEN "Benefit"
    ELSE "Harm"

\* a slip: only a positive rd is taken for a difference
nntComputable_positiveOnly(rd) == RLt(RZero, rd)

\* rd !== 0
nntComputable(rd) == rd # RZero

\* a slip: each bound of the interval is inverted in its own place
nnt_boundsInPlace(goal, rd, rdCI) ==
    IF nntComputable(rd)
    THEN [value |-> Exact(RDiv(ROne, RAbs(rd))),
          type |-> nntType(goal, rd),
          lower |-> FDiv(FOne, rdCI.lower),
          upper |-> FDiv(FOne, rdCI.upper)]
    ELSE null

\* rdCI is the riskDifference already stored in the results
nnt(goal, rd, rdCI) ==
    IF nntComputable(rd)
    THEN [value |-> Exact(RDiv(ROne, RAbs(rd))),
          type |-> nntType(goal, rd),
          lower |-> FDiv(FOne, rdCI.upper),
          upper |-> FDiv(FOne, rdCI.lower)]
    ELSE null

\* a slip: power and type II error are stored the wrong way round
noDifferencePower_swapped ==
    [power |-> [value |-> Exact(RSub(ROne, alpha))],
     type1Error |-> [value |-> Exact(alpha)],
     type2Error |-> [value |-> Exact(alpha)]]

\* a slip: with no difference of risks the type I error is left out
noDifferencePower_alphaOmitted ==
    [power |-> [value |-> Exact(alpha)],
     type1Error |-> null,
     type2Error |-> [value |-> Exact(RSub(ROne, alpha))]]

\* with no difference of risks, power is the type I error rate alpha
noDifferencePower ==
    [power |-> [value |-> Exact(alpha)],
     type1Error |-> [value |-> Exact(alpha)],
     type2Error |-> [value |-> Exact(RSub(ROne, alpha))]]

\* a slip: the case of equal risks is not set apart
risksDiffer_always(riskExposed, riskControl) == TRUE

\* riskExposed !== riskControl
risksDiffer(riskExposed, riskControl) == riskExposed # riskControl

\* a slip: a zero variance passes the test
seAltDefined_zeroAllowed(se_alt_variance) == ~RLt(se_alt_variance, RZero)

\* se_alt_variance > 0
seAltDefined(se_alt_variance) == RLt(RZero, se_alt_variance)

\* the post-hoc power: the fields power, type1Error and type2Error
postHocPower(a, c, exposedTotal, controlTotal, riskExposed, riskControl) ==
    IF risksDiffer(riskExposed, riskControl)
    THEN LET p_pooled == Rat(a + c, exposedTotal + controlTotal)
         IN  IF RLt(RZero, p_pooled) /\ RLt(p_pooled, ROne)
             THEN LET se_null == SqrtRat(RMul(RMul(p_pooled, RSub(ROne, p_pooled)),
                                    RAdd(Rat(1, exposedTotal), Rat(1, controlTotal))))
                      critical_diff == FMul(z_alpha_half, se_null)
                      se_alt_variance ==
                          RAdd(RDiv(RMul(riskExposed, RSub(ROne, riskExposed)),
                                    RInt(exposedTotal)),
                               RDiv(RMul(riskControl, RSub(ROne, riskControl)),
                                    RInt(controlTotal)))
                  IN  IF seAltDefined(se_alt_variance)
                      THEN LET se_alt == SqrtRat(se_alt_variance)
                               observed_diff == FromRat(RSub(riskExposed, riskControl))
                               z_for_upper_tail ==
                                   FDiv(FSub(critical_diff, observed_diff), se_alt)
                               z_for_lower_tail ==
                                   FDiv(FSub(FNeg(critical_diff), observed_diff), se_alt)
                               power == FAdd(FSub(FOne, normalCDF(z_for_upper_tail)),
                                             normalCDF(z_for_lower_tail))
                               beta == FSub(FOne, power)
                           IN  [power |-> [value |-> power],
                                type1Error |-> [value |-> Exact(alpha)],
                                type2Error |-> [value |-> beta]]
                      ELSE [power |-> null,
                            type1Error |-> [value |-> Exact(alpha)],
                            type2Error |-> null]
             ELSE [power |-> null,
                   type1Error |-> [value |-> Exact(alpha)],
                   type2Error |-> null]
    ELSE noDifferencePower

\* a slip: every cell must be positive
oddsRatioComputable_allPositive(a, b, c, d) == a > 0 /\ b > 0 /\ c > 0 /\ d > 0

\* whether the odds ratio is computed for the raw counts
oddsRatioComputable(a, b, c, d) == a >= 0 /\ b > 0 /\ c > 0 /\ d >= 0

oddsRatio(a, b, c, d) ==
    IF oddsRatioComputable(a, b, c, d)
    THEN LET ca == Corrected(a)
             cb == Corrected(b)
             cc == Corrected(c)
             cd == Corrected(d)
             or == RDiv(RMul(ca, cd), RMul(cb, cc))
             ln_or == Math_log(FromRat(or))
             se_ln_or == SqrtRat(RAdd(RAdd(RDiv(ROne, ca), RDiv(ROne, cb)),
                                      RAdd(RDiv(ROne, cc), RDiv(ROne, cd))))
             zStat == FDiv(ln_or, se_ln_or)
         IN  [value |-> Exact(or),
              lower |-> Math_exp(FSub(ln_or, FMul(z_alpha_half, se_ln_or))),
              upper |-> Math_exp(FAdd(ln_or, FMul(z_alpha_half, se_ln_or))),
              pValue |-> calculatePValueFromZ(zStat),
              zStat |-> zStat]
    ELSE null

\* newResults as first built: every field null
emptyResults ==
    [absoluteRiskExposed |-> null, absoluteRiskControl |-> null,
     riskDifference |-> null, relativeRisk |-> null, oddsRatio |-> null,
     impactMeasures |-> null, nnt |-> null, power |-> null,
     type1Error |-> null, type2Error |-> null]

\* the fields set inside "if (exposedTotal > 0 && controlTotal > 0)"
incidenceMetrics(a, b, c, d, goal) ==
    LET ca == Corrected(a)
        cb == Corrected(b)
        cc == Corrected(c)
        cd == Corrected(d)
        exposedTotal == a + b
        controlTotal == c + d
        exposedTotal_c == RAdd(ca, cb)
        controlTotal_c == RAdd(cc, cd)
        riskExposed == pointRisk(a, exposedTotal)
        riskControl == pointRisk(c, controlTotal)
        riskExposed_c == RDiv(ca, exposedTotal_c)
        riskControl_c == RDiv(cc, controlTotal_c)
        rd == RSub(riskExposed, riskControl)
        rdCI == riskDifference(rd, riskExposed_c, riskControl_c,
                               exposedTotal_c, controlTotal_c)
        pw == postHocPower(a, c, exposedTotal, controlTotal,
                           riskExposed, riskControl)
    IN  [absoluteRiskExposed |-> [value |-> Exact(riskExposed)],
         absoluteRiskControl |-> [value |-> Exact(riskControl)],
         riskDifference |-> rdCI,
         relativeRisk |-> relativeRisk(riskExposed, riskControl,
                                       riskExposed_c, riskControl_c, ca, cc),
         oddsRatio |-> null,
         impactMeasures |-> impactMeasures(goal, riskControl, rd),
         nnt |-> nnt(goal, rd, rdCI),
         power |-> pw.power,
         type1Error |-> pw.type1Error,
         type2Error |-> pw.type2Error]

\* a slip: the two totals are tested together
totalsPositive_grandTotal(exposedTotal, controlTotal) ==
    exposedTotal + controlTotal > 0

\* exposedTotal > 0 && controlTotal > 0
totalsPositive(exposedTotal, controlTotal) ==
    exposedTotal > 0 /\ controlTotal > 0

\* a slip: the odds ratio is computed inside the test of the design
computeMetrics_oddsRatioInDesign(a, b, c, d, design, goal) ==
    IF IncidenceDesign(design)
    THEN [(IF totalsPositive(a + b, c + d)
           THEN incidenceMetrics(a, b, c, d, goal)
           ELSE emptyResults) EXCEPT !.oddsRatio = oddsRatio(a, b, c, d)]
    ELSE emptyResults

\* newResults for the valid counts a, b, c, d, a design and a goal
computeMetrics(a, b, c, d, design, goal) ==
    LET incidence ==
            IF IncidenceDesign(design) /\ totalsPositive(a + b, c + d)
            THEN incidenceMetrics(a, b, c, d, goal)
            ELSE emptyResults
    IN  [incidence EXCEPT !.oddsRatio = oddsRatio(a, b, c, d)]


(***************************************************************************)
(* The App component: its state after construction and its handlers.  The  *)
(* calculator page alone renders the form, the language switcher and the   *)
(* buttons, so its handlers run only while currentPage = 'calculator'.     *)
(***************************************************************************)
\* error when no message is shown (null)
noError == <<>>

\* T.errorStudyGoal, T.errorStudyDesign and T.errorInvalidNumber(key), T
\* being the translations of the language at the time of the call
errorStudyGoal(lang) == <<lang, "errorStudyGoal">>
errorStudyDesign(lang) == <<lang, "errorStudyDesign">>
errorInvalidNumber(lang, key) == <<lang, "errorInvalidNumber", key>>

\* no function application is observed
noCall == [fn |-> "none"]

Init ==
    /\ inputs = initialInputs
    /\ studyGoal = nullStr
    /\ studyDesign = nullStr
    /\ aiModel = "gemini-2.5-flash"
    /\ results = null
    /\ error = noError
    /\ isCalculating = FALSE
    /\ isInterpreting = FALSE
    /\ aiInterpretation = null
    /\ aiNarrativeSummary = null
    /\ currentPage = "calculator"
    /\ language = "en"
    /\ call = noCall
    /\ requests = EmptyBag

handleLanguageChange(lang) ==
    /\ UNCHANGED <<call, requests>>
    /\ currentPage = "calculator"
    /\ language' = lang
    /\ aiInterpretation' = null
    /\ aiNarrativeSummary' = null
    /\ UNCHANGED <<inputs, studyGoal, studyDesign, aiModel, results, error,
                   isCalculating, isInterpreting, currentPage>>

handleInputChange(name, value) ==
    /\ UNCHANGED <<call, requests>>
    /\ currentPage = "calculator"
    /\ inputs' = [inputs EXCEPT ![name] = value]
    /\ UNCHANGED <<studyGoal, studyDesign, aiModel, results, error,
                   isCalculating, isInterpreting, aiInterpretation,
                   aiNarrativeSummary, currentPage, language>>

setStudyGoal(goal) ==
    /\ UNCHANGED <<call, requests>>
    /\ currentPage = "calculator"
    /\ studyGoal' = goal
    /\ UNCHANGED <<inputs, studyDesign, aiModel, results, error,
                   isCalculating, isInterpreting, aiInterpretation,
                   aiNarrativeSummary, currentPage, language>>

setStudyDesign(design) ==
    /\ UNCHANGED <<call, requests>>
    /\ currentPage = "calculator"
    /\ studyDesign' = design
    /\ UNCHANGED <<inputs, studyGoal, aiModel, results, error,
                   isCalculating, isInterpreting, aiInterpretation,
                   aiNarrativeSummary, currentPage, language>>

setAiModel(model) ==
    /\ UNCHANGED <<call, requests>>
    /\ currentPage = "calculator"
    /\ aiModel' = model
    /\ UNCHANGED <<inputs, studyGoal, studyDesign, results, error,
                   isCalculating, isInterpreting, aiInterpretation,
                   aiNarrativeSummary, currentPage, language>>

handleReset ==
    /\ UNCHANGED <<call, requests>>
    /\ currentPage = "calculator"
    /\ inputs' = initialInputs
    /\ studyGoal' = nullStr
    /\ studyDesign' = nullStr
    /\ aiModel' = "gemini-2.5-flash"
    /\ results' = null
    /\ error' = noError
    /\ aiInterpretation' = null
    /\ aiNarrativeSummary' = null
    /\ isCalculating' = FALSE
    /\ isInterpreting' = FALSE
    /\ currentPage' = "calculator"
    /\ UNCHANGED language

\* the keys of values in the order "for (const key in values)" visits them
valueKeys == <<"a", "b", "c", "d">>

\* isNaN(val) || val < 0
invalidValue(val) == val.nan \/ val.v < 0

\* a slip: the previous error is not cleared
clearedError_kept == error

\* setError(null), the first statement of handleCalculate: the error left
\* when no later statement sets one
clearedError == noError

\* the Calculate button is rendered enabled
calculateButtonEnabled ==
    ~(isCalculating \/ studyGoal = nullStr \/ studyDesign = nullStr)

handleCalculate ==
    /\ UNCHANGED <<call, requests>>
    /\ currentPage = "calculator"
    /\ calculateButtonEnabled
    /\ aiInterpretation' = null
    /\ aiNarrativeSummary' = null
    /\ IF studyGoal = nullStr
       THEN /\ error' = errorStudyGoal(language)
            /\ results' = null
            /\ UNCHANGED isCalculating
       ELSE IF studyDesign = nullStr
       THEN /\ error' = errorStudyDesign(language)
            /\ results' = null
            /\ UNCHANGED isCalculating
       ELSE LET values == [k \in Cells |-> parseInt(inputs[k])]
                bad == {i \in 1..4 : invalidValue(values[valueKeys[i]])}
            IN  /\ isCalculating' = FALSE
                /\ IF bad # {}
                   THEN LET first == CHOOSE i \in bad : \A j \in bad : i <= j
                        IN  /\ error' = errorInvalidNumber(language, valueKeys[first])
                            /\ results' = null
                   ELSE /\ error' = clearedError
                        /\ results' = computeMetrics(values.a.v, values.b.v,
                                                     values.c.v, values.d.v,
                                                     studyDesign, studyGoal)
    /\ UNCHANGED <<inputs, studyGoal, studyDesign, aiModel, isInterpreting,
                   currentPage, language>>

\* the How-to-use button of the calculator page
openHowToUse ==
    /\ UNCHANGED <<call, requests>>
    /\ currentPage = "calculator"
    /\ currentPage' = "howToUse"
    /\ UNCHANGED <<inputs, studyGoal, studyDesign, aiModel, results, error,
                   isCalculating, isInterpreting, aiInterpretation,
                   aiNarrativeSummary, language>>

\* the Back button of the other pages
backToCalculator ==
    /\ UNCHANGED <<call, requests>>
    /\ currentPage # "calculator"
    /\ currentPage' = "calculator"
    /\ UNCHANGED <<inputs, studyGoal, studyDesign, aiModel, results, error,
                   isCalculating, isInterpreting, aiInterpretation,
                   aiNarrativeSummary, language>>

Next ==
    \/ \E lang \in Languages : handleLanguageChange(lang)
    \/ \E name \in Cells, value \in TypedTexts : handleInputChange(name, value)
    \/ \E goal \in StudyGoals : setStudyGoal(goal)
    \/ \E design \in StudyDesigns : setStudyDesign(design)
    \/ \E model \in AiModels : setAiModel(model)
    \/ handleReset
    \/ handleCalculate
    \/ openHowToUse
    \/ backToCalculator

Spec == Init /\ [][Next]_vars


(***************************************************************************)
(* The AI requests.  handleRequestSummary and handleRequestReport await    *)
(* fetchAiNarrativeSummary and fetchAiInterpretation; until the answer of  *)
(* the model arrives the App handles other events.  The steps after the    *)
(* await (the state updates of the fetch function and the catch and        *)
(* finally blocks of the handler) run without another event between them   *)
(* and are one action.                                                     *)
(***************************************************************************)
\* the most requests awaited at one time
MaxInFlight == 2

\* the strings held in aiNarrativeSummary and aiInterpretation
emptyText == [text |-> ""]
failedSummary ==
    [text |-> "Failed to generate summary. Please go back and try again."]
failedReport ==
    [text |-> "Failed to generate report. Please go back and try again."]
\* what the model wrote in answer to a request, cleaned and trimmed: a
\* text in the language of the request about the results of the request
responseText(request) ==
    [text |-> "response", lang |-> request.lang,
     currentResults |-> request.currentResults]

\* !text: null or the empty string
falsy(text) == text = null \/ text = emptyText

\* a slip: the cached text is not looked at
shouldFetch_always(text) == TRUE

\* if (!aiNarrativeSummary), if (!aiInterpretation): no text is cached
shouldFetch(text) == falsy(text)

\* the arguments of a call of fetchAiNarrativeSummary or
\* fetchAiInterpretation made in the present state
fetchArguments(fn) ==
    [fn |-> fn, currentResults |-> results, currentInputs |-> inputs,
     goal |-> studyGoal, design |-> studyDesign, model |-> aiModel,
     lang |-> language]

\* the number of requests awaited
inFlight == BagCardinality(requests)

\* the summary and report buttons are rendered
requestButtonsRendered == currentPage = "calculator" /\ results # null

handleRequestSummary ==
    /\ UNCHANGED call
    /\ requestButtonsRendered
    /\ shouldFetch(aiNarrativeSummary) => inFlight < MaxInFlight
    /\ IF results = null \/ studyGoal = nullStr \/ studyDesign = nullStr
       THEN UNCHANGED <<currentPage, isInterpreting, requests>>
       ELSE /\ currentPage' = "narrativeSummary"
            /\ IF shouldFetch(aiNarrativeSummary)
               THEN /\ isInterpreting' = TRUE
                    /\ requests' = requests (+)
                            SetToBag({fetchArguments("fetchAiNarrativeSummary")})
               ELSE UNCHANGED <<isInterpreting, requests>>
    /\ UNCHANGED <<inputs, studyGoal, studyDesign, aiModel, results, error,
                   isCalculating, aiInterpretation, aiNarrativeSummary,
                   language>>

handleRequestReport ==
    /\ UNCHANGED call
    /\ requestButtonsRendered
    /\ shouldFetch(aiInterpretation) => inFlight < MaxInFlight
    /\ IF results = null \/ studyGoal = nullStr \/ studyDesign = nullStr
       THEN UNCHANGED <<currentPage, isInterpreting, requests>>
       ELSE /\ currentPage' = "interpretation"
            /\ IF shouldFetch(aiInterpretation)
               THEN /\ isInterpreting' = TRUE
                    /\ requests' = requests (+)
                            SetToBag({fetchArguments("fetchAiInterpretation")})
               ELSE UNCHANGED <<isInterpreting, requests>>
    /\ UNCHANGED <<inputs, studyGoal, studyDesign, aiModel, results, error,
                   isCalculating, aiInterpretation, aiNarrativeSummary,
                   language>>

\* the requests of one fetch function that are awaited
awaited(fn) == {request \in BagToSet(requests) : request.fn = fn}

\* generateContent answered: the fetch function stores the text, the
\* handler's finally block ends the waiting
fetchAiNarrativeSummaryResolved(request, text) ==
    /\ UNCHANGED call
    /\ BagIn(request, requests)
    /\ requests' = requests (-) SetToBag({request})
    /\ aiNarrativeSummary' = text
    /\ isInterpreting' = FALSE
    /\ UNCHANGED <<inputs, studyGoal, studyDesign, aiModel, results, error,
                   isCalculating, aiInterpretation, currentPage, language>>

\* generateContent threw: the message of the fetch function is replaced by
\* the message of the handler's catch block
fetchAiNarrativeSummaryRejected(request) ==
    /\ UNCHANGED call
    /\ BagIn(request, requests)
    /\ requests' = requests (-) SetToBag({request})
    /\ aiNarrativeSummary' = failedSummary
    /\ isInterpreting' = FALSE
    /\ UNCHANGED <<inputs, studyGoal, studyDesign, aiModel, results, error,
                   isCalculating, aiInterpretation, currentPage, language>>

fetchAiInterpretationResolved(request, text) ==
    /\ UNCHANGED call
    /\ BagIn(request, requests)
    /\ requests' = requests (-) SetToBag({request})
    /\ aiInterpretation' = text
    /\ isInterpreting' = FALSE
    /\ UNCHANGED <<inputs, studyGoal, studyDesign, aiModel, results, error,
                   isCalculating, aiNarrativeSummary, currentPage, language>>

fetchAiInterpretationRejected(request) ==
    /\ UNCHANGED call
    /\ BagIn(request, requests)
    /\ requests' = requests (-) SetToBag({request})
    /\ aiInterpretation' = failedReport
    /\ isInterpreting' = FALSE
    /\ UNCHANGED <<inputs, studyGoal, studyDesign, aiModel, results, error,
                   isCalculating, aiNarrativeSummary, currentPage, language>>

\* the languages chosen while requests are followed
ChosenLanguages == {"en", "uk"}

\* a form filled in and not yet calculated
InitAi ==
    /\ inputs = [k \in Cells |-> <<"1">>]
    /\ studyGoal = "undesirable"
    /\ studyDesign = "rct"
    /\ aiModel = "gemini-2.5-flash"
    /\ results = null
    /\ error = noError
    /\ isCalculating = FALSE
    /\ isInterpreting = FALSE
    /\ aiInterpretation = null
    /\ aiNarrativeSummary = null
    /\ currentPage = "calculator"
    /\ language = "en"
    /\ call = noCall
    /\ requests = EmptyBag

NextAi ==
    \/ \E lang \in ChosenLanguages : handleLanguageChange(lang)
    \/ \E value \in TypedTexts : handleInputChange("a", value)
    \/ \E goal \in StudyGoals : setStudyGoal(goal)
    \/ handleReset
    \/ handleCalculate
    \/ handleRequestSummary
    \/ handleRequestReport
    \/ \E request \in awaited("fetchAiNarrativeSummary") :
            \E text \in {responseText(request), emptyText} :
                fetchAiNarrativeSummaryResolved(request, text)
    \/ \E request \in awaited("fetchAiNarrativeSummary") :
            fetchAiNarrativeSummaryRejected(request)
    \/ \E request \in awaited("fetchAiInterpretation") :
            \E text \in {responseText(request), emptyText} :
                fetchAiInterpretationResolved(request, text)
    \/ \E request \in awaited("fetchAiInterpretation") :
            fetchAiInterpretationRejected(request)
    \/ backToCalculator

SpecAi == InitAi /\ [][NextAi]_vars

(***************************************************************************)
(* The calculation alone: handleCalculate applied to every form the user   *)
(* can have filled in, each cell holding one of CellTexts.                 *)
(***************************************************************************)
InitCalc ==
    /\ inputs \in [Cells -> CellTexts]
    /\ studyGoal \in StudyGoals \cup {nullStr}
    /\ studyDesign \in StudyDesigns \cup {nullStr}
    /\ aiModel = "gemini-2.5-flash"
    /\ results = null
    /\ error = noError
    /\ isCalculating = FALSE
    /\ isInterpreting = FALSE
    /\ aiInterpretation = null
    /\ aiNarrativeSummary = null
    /\ currentPage = "calculator"
    /\ language = "en"
    /\ call = noCall
    /\ requests = EmptyBag

NextCalc == handleCalculate

SpecCalc == InitCalc /\ [][NextCalc]_vars


(***************************************************************************)
(* Properties of the calculation, checked under SpecCalc.  There the form  *)
(* is not edited after handleCalculate, so a non-null results was computed *)
(* from the counts, the design and the goal of the state.                  *)
(***************************************************************************)
\* the four counts of the form
cellA == parseInt(inputs.a).v
cellB == parseInt(inputs.b).v
cellC == parseInt(inputs.c).v
cellD == parseInt(inputs.d).v

Calculated == results # null
BothTotalsPositive == cellA + cellB > 0 /\ cellC + cellD > 0
\* (a+b)(c+d) * rd: the sign of rd = a/(a+b) - c/(c+d)
rdSign == cellA * (cellC + cellD) - cellC * (cellA + cellB)
\* |rd| and |rd| / riskControl as fractions of the counts
absRd == Rat(Abs(rdSign), (cellA + cellB) * (cellC + cellD))
absRdOverControl == Rat(Abs(rdSign), cellC * (cellA + cellB))

\* C1: with design = case-control the result has absoluteRiskExposed,
\* absoluteRiskControl, riskDifference, relativeRisk, impactMeasures, nnt
\* and power all null, for every table and either goal.
C1_CaseControlNoIncidence ==
    (Calculated /\ studyDesign = "case-control") =>
        /\ results.absoluteRiskExposed = null
        /\ results.absoluteRiskControl = null
        /\ results.riskDifference = null
        /\ results.relativeRisk = null
        /\ results.impactMeasures = null
        /\ results.nnt = null
        /\ results.power = null

\* a case-control result for a table with both totals positive and
\* different risks, whose odds ratio is computed
C1_Witness ==
    /\ Calculated
    /\ studyDesign = "case-control"
    /\ BothTotalsPositive
    /\ rdSign # 0
    /\ results.oddsRatio # null

C3_EqualRisks ==
    (/\ Calculated
     /\ studyDesign # "case-control"
     /\ BothTotalsPositive
     /\ rdSign = 0) =>
        /\ results.power = [value |-> Exact(<<1, 20>>)]
        /\ results.type1Error = [value |-> Exact(<<1, 20>>)]
        /\ results.type2Error = [value |-> Exact(<<19, 20>>)]
        /\ results.riskDifference.value = Exact(<<0, 1>>)
        /\ results.impactMeasures = null
        /\ results.nnt = null

\* a result for equal risks strictly between 0 and 1, from groups of
\* different sizes
C3_Witness ==
    /\ Calculated
    /\ studyDesign # "case-control"
    /\ rdSign = 0
    /\ cellA > 0 /\ cellB > 0 /\ cellC > 0 /\ cellD > 0
    /\ cellA # cellC
    /\ results.power # null

\* C4: for design not case-control, both totals > 0 and unequal risks, if
\* each group's risk is 0 or 1 (ab = 0 and cd = 0), so that the standard
\* error under the alternative is 0, then power and type2Error are null
\* and type1Error is 0.05.
C4_ZeroVarianceNullPower ==
    (/\ Calculated
     /\ studyDesign # "case-control"
     /\ BothTotalsPositive
     /\ rdSign # 0
     /\ cellA * cellB = 0
     /\ cellC * cellD = 0) =>
        /\ results.power = null
        /\ results.type2Error = null
        /\ results.type1Error = [value |-> Exact(<<1, 20>>)]

\* a result for risks 0 and 1
C4_Witness ==
    /\ Calculated
    /\ studyDesign # "case-control"
    /\ cellA = 0 /\ cellB > 0 /\ cellC > 0 /\ cellD = 0
    /\ results.riskDifference # null
    /\ results.power = null

\* C5: a non-null nnt has type 'Benefit' exactly when (goal undesirable and
\* rd < 0) or (goal desirable and rd > 0), and 'Harm' otherwise, rd being
\* a/(a+b) - c/(c+d) of the raw counts.
C5_NntType ==
    (Calculated /\ results.nnt # null) =>
        LET benefit == \/ (studyGoal = "undesirable" /\ rdSign < 0)
                       \/ (studyGoal = "desirable" /\ rdSign > 0)
        IN  /\ BothTotalsPositive
            /\ results.nnt.type = (IF benefit THEN "Benefit" ELSE "Harm")

\* a Benefit for a desirable outcome that the exposure makes more frequent
C5_Witness ==
    /\ Calculated
    /\ results.nnt # null
    /\ studyGoal = "desirable"
    /\ rdSign > 0
    /\ results.nnt.type = "Benefit"

\* C6: the labels of a non-null impactMeasures follow the policy on (goal,
\* sign of rd): undesirable, rd > 0: ARI/RRI; undesirable, rd < 0: ARR/RRR;
\* desirable, rd > 0: ABI/RBI; desirable, rd < 0: ABR/RBR; both labels
\* come from the same row.
C6_ImpactLabels ==
    (Calculated /\ results.impactMeasures # null) =>
        LET labels == <<results.impactMeasures.absolute.label,
                        results.impactMeasures.relative.label>>
        IN  /\ rdSign # 0
            /\ studyGoal \in StudyGoals
            /\ (studyGoal = "undesirable" /\ rdSign > 0) =>
                   labels = <<"Absolute Risk Increase (ARI)",
                              "Relative Risk Increase (RRI)">>
            /\ (studyGoal = "undesirable" /\ rdSign < 0) =>
                   labels = <<"Absolute Risk Reduction (ARR)",
                              "Relative Risk Reduction (RRR)">>
            /\ (studyGoal = "desirable" /\ rdSign > 0) =>
                   labels = <<"Absolute Benefit Increase (ABI)",
                              "Relative Benefit Increase (RBI)">>
            /\ (studyGoal = "desirable" /\ rdSign < 0) =>
                   labels = <<"Absolute Benefit Reduction (ABR)",
                              "Relative Benefit Reduction (RBR)">>

\* impact measures for a desirable outcome that the exposure makes rarer
C6_Witness ==
    /\ Calculated
    /\ results.impactMeasures # null
    /\ studyGoal = "desirable"
    /\ rdSign < 0

\* C7: impactMeasures is non-null exactly when design is not case-control,
\* both totals are > 0, c > 0 and rd # 0; then absolute.value = |rd| and
\* relative.value = |rd| / riskControl.
C7_ImpactMeasures ==
    Calculated =>
        /\ (results.impactMeasures # null) <=>
               (/\ studyDesign # "case-control"
                /\ BothTotalsPositive
                /\ cellC > 0
                /\ rdSign # 0)
        /\ (results.impactMeasures # null) =>
               /\ results.impactMeasures.absolute.value = Exact(absRd)
               /\ results.impactMeasures.relative.value = Exact(absRdOverControl)

\* impact measures of a table whose relative value is not its absolute one
C7_Witness ==
    /\ Calculated
    /\ results.impactMeasures # null
    /\ cellD > 0
    /\ results.impactMeasures.relative.value
           # results.impactMeasures.absolute.value

\* C8: nnt is non-null exactly when design is not case-control, both totals
\* are > 0 and rd # 0, whether or not riskControl is 0; then nnt.value is
\* 1/|rd|.
C8_Nnt ==
    Calculated =>
        /\ (results.nnt # null) <=>
               (/\ studyDesign # "case-control"
                /\ BothTotalsPositive
                /\ rdSign # 0)
        /\ (results.nnt # null) =>
               results.nnt.value =
                   Exact(Rat((cellA + cellB) * (cellC + cellD), Abs(rdSign)))

\* an nnt computed although the control risk is 0
C8_Witness ==
    /\ Calculated
    /\ results.nnt # null
    /\ cellC = 0
    /\ results.impactMeasures = null

\* C9: relativeRisk is non-null exactly when design is not case-control,
\* both totals are > 0 and c > 0; its value is 0 when a = 0 and otherwise
\* (a/(a+b)) / (c/(c+d)) of the raw counts.
C9_RelativeRisk ==
    Calculated =>
        /\ (results.relativeRisk # null) <=>
               (/\ studyDesign # "case-control"
                /\ BothTotalsPositive
                /\ cellC > 0)
        /\ (results.relativeRisk # null) =>
               results.relativeRisk.value =
                   (IF cellA = 0
                    THEN Exact(<<0, 1>>)
                    ELSE Exact(Rat(cellA * (cellC + cellD),
                                   cellC * (cellA + cellB))))

\* a relative risk other than 0 and 1 of a table with an empty cell
C9_Witness ==
    /\ Calculated
    /\ results.relativeRisk # null
    /\ cellA > 0
    /\ cellB = 0
    /\ rdSign # 0

\* C10: oddsRatio is null exactly when b = 0 or c = 0; a zero in a or d
\* alone never makes it null, for every design and goal.
C10_OddsRatioNull ==
    Calculated => ((results.oddsRatio = null) <=> (cellB = 0 \/ cellC = 0))

\* an odds ratio computed with a = 0 and d = 0
C10_Witness ==
    /\ Calculated
    /\ cellA = 0 /\ cellD = 0 /\ cellB > 0 /\ cellC > 0
    /\ results.oddsRatio # null

(***************************************************************************)
(* The odds ratio.                                                         *)
(***************************************************************************)
\* twice the corrected cell: 1 for a cell that is 0
Doubled(x) == IF x = 0 THEN 1 ELSE 2 * x

NoZeroCell == cellA > 0 /\ cellB > 0 /\ cellC > 0 /\ cellD > 0

\* C11: a stored odds ratio has the value (a_c * d_c) / (b_c * c_c), where a
\* cell that is 0 counts 0.5; it is finite and strictly positive, and it is
\* (a * d) / (b * c) when no cell is 0
C11_OddsRatioValue ==
    (Calculated /\ results.oddsRatio # null) =>
        LET v == results.oddsRatio.value
        IN  /\ v = Exact(Rat(Doubled(cellA) * Doubled(cellD),
                             Doubled(cellB) * Doubled(cellC)))
            /\ v.n > 0
            /\ v.d > 0
            /\ NoZeroCell => v = Exact(Rat(cellA * cellD, cellB * cellC))

C11_Witness ==
    /\ Calculated
    /\ results.oddsRatio # null
    /\ cellA = 0
    /\ cellD > 1
    /\ results.oddsRatio.value = Exact(Rat(cellD, 2 * cellB * cellC))

\* C12: the odds ratio field stored for a table (null, or its value, bounds,
\* zStat and pValue) is the one every other design and goal gives for the
\* same table
C12_OddsRatioDesignFree ==
    Calculated =>
        \A design \in StudyDesigns : \A goal \in StudyGoals :
            computeMetrics(cellA, cellB, cellC, cellD, design, goal).oddsRatio
                = results.oddsRatio

C12_Witness ==
    /\ Calculated
    /\ studyDesign = "case-control"
    /\ studyGoal = "desirable"
    /\ results.oddsRatio # null
    /\ results.oddsRatio
         = computeMetrics(cellA, cellB, cellC, cellD, "rct",
                          "undesirable").oddsRatio
    /\ cellA = 0

\* C13: for a design other than case-control with both group totals
\* positive, the stored risks are a / (a + b) and c / (c + d) of the raw
\* counts: a = 0 gives the risk 0, not a corrected one
C13_RawRisks ==
    (Calculated /\ studyDesign # "case-control" /\ BothTotalsPositive) =>
        /\ results.absoluteRiskExposed # null
        /\ results.absoluteRiskControl # null
        /\ results.absoluteRiskExposed.value
             = Exact(Rat(cellA, cellA + cellB))
        /\ results.absoluteRiskControl.value
             = Exact(Rat(cellC, cellC + cellD))
        /\ cellA = 0 => results.absoluteRiskExposed.value = Exact(RZero)
        /\ cellC = 0 => results.absoluteRiskControl.value = Exact(RZero)

C13_Witness ==
    /\ Calculated
    /\ studyDesign = "cohort-prospective"
    /\ BothTotalsPositive
    /\ cellA = 0
    /\ cellD = 0
    /\ results.absoluteRiskExposed.value = Exact(RZero)
    /\ results.absoluteRiskControl.value = Exact(ROne)

(***************************************************************************)
(* Degenerate tables: what handleCalculate stores for them.                *)
(***************************************************************************)
\* no cell is rejected by the validation of handleCalculate
ValidCounts == \A k \in Cells : ~invalidValue(parseInt(inputs[k]))

\* C14: when a + b = 0 or c + d = 0 a calculation stores, for every design,
\* a result in which absoluteRiskExposed, absoluteRiskControl,
\* riskDifference, relativeRisk, impactMeasures, nnt, power, type1Error and
\* type2Error are all null; it still stores a result and shows no error
C14_ZeroTotalNulls ==
    [][(ValidCounts /\ (cellA + cellB = 0 \/ cellC + cellD = 0)) =>
          /\ results' # null
          /\ error' = noError
          /\ results'.absoluteRiskExposed = null
          /\ results'.absoluteRiskControl = null
          /\ results'.riskDifference = null
          /\ results'.relativeRisk = null
          /\ results'.impactMeasures = null
          /\ results'.nnt = null
          /\ results'.power = null
          /\ results'.type1Error = null
          /\ results'.type2Error = null]_vars

C14_Witness ==
    /\ Calculated
    /\ error = noError
    /\ studyDesign = "rct"
    /\ cellA + cellB = 0
    /\ cellC > 0
    /\ cellD > 0
    /\ results.type1Error = null
    /\ results.oddsRatio = null

\* a number that is not NaN (an infinity is a number)
DefinedNumber(x) ==
    IF x.k = "rat" THEN ~(x.n = 0 /\ x.d = 0) ELSE ~IsNaN(x)

\* a field holding one number: null or defined
DefinedValue(field) == field = null \/ DefinedNumber(field.value)

\* an estimate with its interval: null or all of its numbers defined
DefinedInterval(field) ==
    \/ field = null
    \/ /\ DefinedNumber(field.value)
       /\ DefinedNumber(field.lower)
       /\ DefinedNumber(field.upper)

\* a ratio with its test: null or all defined, the p-value a text of digits
DefinedRatio(field) ==
    \/ field = null
    \/ /\ DefinedInterval(field)
       /\ DefinedNumber(field.zStat)
       /\ field.pValue # toFixed4(NotANumber)

AllDefined(r) ==
    /\ DefinedValue(r.absoluteRiskExposed)
    /\ DefinedValue(r.absoluteRiskControl)
    /\ DefinedInterval(r.riskDifference)
    /\ DefinedRatio(r.relativeRisk)
    /\ DefinedRatio(r.oddsRatio)
    /\ \/ r.impactMeasures = null
       \/ /\ DefinedNumber(r.impactMeasures.absolute.value)
          /\ DefinedNumber(r.impactMeasures.relative.value)
    /\ \/ r.nnt = null
       \/ /\ DefinedInterval(r.nnt)
          /\ r.nnt.type \in {"Benefit", "Harm"}
    /\ DefinedValue(r.power)
    /\ DefinedValue(r.type1Error)
    /\ DefinedValue(r.type2Error)

WithoutLabels(r) ==
    [r EXCEPT
        !.impactMeasures =
            IF r.impactMeasures = null
            THEN null
            ELSE [absolute |-> r.impactMeasures.absolute.value,
                  relative |-> r.impactMeasures.relative.value],
        !.nnt =
            IF r.nnt = null
            THEN null
            ELSE [value |-> r.nnt.value,
                  lower |-> r.nnt.lower,
                  upper |-> r.nnt.upper]]

\* C16: for the same table and design the other goal gives the same null
\* fields and the same numbers; only the labels of the impact measures and
\* the type of the NNT may differ
C16_GoalOnlyLabels ==
    Calculated =>
        \A goal \in StudyGoals :
            WithoutLabels(computeMetrics(cellA, cellB, cellC, cellD,
                                         studyDesign, goal))
                = WithoutLabels(results)

C16_Witness ==
    /\ Calculated
    /\ studyGoal = "desirable"
    /\ results.impactMeasures # null
    /\ results.nnt # null
    /\ results.nnt.type = "Harm"
    /\ computeMetrics(cellA, cellB, cellC, cellD, studyDesign,
                      "undesirable").nnt.type = "Benefit"
    /\ computeMetrics(cellA, cellB, cellC, cellD, studyDesign,
                      "undesirable").impactMeasures.absolute.label
         # results.impactMeasures.absolute.label

\* the interval of the stored risk difference lies on both sides of 0
IntervalStraddlesZero ==
    /\ FLt(results.riskDifference.lower, Fx(0))
    /\ FLt(Fx(0), results.riskDifference.upper)

\* the interval of the stored risk difference lies on one side of 0
IntervalOneSided ==
    \/ FLt(Fx(0), results.riskDifference.lower)
    \/ FLt(results.riskDifference.upper, Fx(0))

C17_WitnessOneSided ==
    /\ Calculated
    /\ results.nnt # null
    /\ IntervalOneSided
    /\ FLt(results.nnt.lower, results.nnt.upper)

(***************************************************************************)
(* Numbers to twelve decimals.  The fixed point of Scale above is too      *)
(* coarse to tell normalCDF(0) from 0.5 or to place the threshold of       *)
(* calculatePValueFromZ; the functions of the file are therefore also      *)
(* computed on decimals of FracLimbs groups of four digits after the       *)
(* point.  A magnitude is a sequence of limbs, each 0..Base-1, the least   *)
(* significant first and without leading zero limbs; a number is a sign    *)
(* and a magnitude.  Every operation is the exact one rounded towards 0    *)
(* at the last decimal.                                                    *)
(***************************************************************************)
Base == 10000
FracLimbs == 3

\* the magnitude of the natural number n
RECURSIVE NatOf(_)
NatOf(n) == IF n = 0 THEN <<>> ELSE <<n % Base>> \o NatOf(n \div Base)

\* s without the zero limbs at its high end
NatStrip(s) ==
    IF \A i \in 1..Len(s) : s[i] = 0 THEN <<>>
    ELSE SubSeq(s, 1, CHOOSE i \in 1..Len(s) :
                          s[i] # 0 /\ \A j \in (i + 1)..Len(s) : s[j] = 0)

LimbAt(s, i) == IF i <= Len(s) THEN s[i] ELSE 0

NatLen(a, b) == IF Len(a) > Len(b) THEN Len(a) ELSE Len(b)

\* a + b: limb i receives a carry when a lower limb overflows and the limbs
\* between are full
NatAdd(a, b) ==
    LET sum == [i \in 1..(NatLen(a, b) + 1) |-> LimbAt(a, i) + LimbAt(b, i)]
        carry == [i \in 1..(NatLen(a, b) + 1) |->
                    IF \E j \in 1..(i - 1) :
                          /\ sum[j] >= Base
                          /\ \A k \in (j + 1)..(i - 1) : sum[k] = Base - 1
                    THEN 1 ELSE 0]
    IN  NatStrip([i \in 1..(NatLen(a, b) + 1) |-> (sum[i] + carry[i]) % Base])

\* a - b for a >= b: limb i lends when a lower limb falls short and the
\* limbs between are equal
NatSub(a, b) ==
    LET diff == [i \in 1..Len(a) |-> a[i] - LimbAt(b, i)]
        borrow == [i \in 1..Len(a) |->
                     IF \E j \in 1..(i - 1) :
                           /\ diff[j] < 0
                           /\ \A k \in (j + 1)..(i - 1) : diff[k] = 0
                     THEN 1 ELSE 0]
    IN  NatStrip([i \in 1..Len(a) |-> (diff[i] - borrow[i]) % Base])

RECURSIVE NatLtFrom(_, _, _)
NatLtFrom(a, b, i) ==
    IF i = 0 THEN FALSE
    ELSE IF a[i] # b[i] THEN a[i] < b[i]
    ELSE NatLtFrom(a, b, i - 1)

NatLt(a, b) ==
    IF Len(a) # Len(b) THEN Len(a) < Len(b) ELSE NatLtFrom(a, b, Len(a))

\* the sum of a[i] * b[k + 1 - i] for i in lo..hi: the column k of the
\* long multiplication, of at most 21 products
RECURSIVE NatColumn(_, _, _, _, _)
NatColumn(a, b, k, lo, hi) ==
    IF lo > hi THEN 0
    ELSE IF lo = hi THEN a[lo] * b[k + 1 - lo]
    ELSE NatColumn(a, b, k, lo, (lo + hi) \div 2)
             + NatColumn(a, b, k, ((lo + hi) \div 2) + 1, hi)

\* a * b by long multiplication: the columns, each split into three limbs
NatMul(a, b) ==
    IF a = <<>> \/ b = <<>> THEN <<>>
    ELSE LET n == Len(a) + Len(b) - 1
             col == [k \in 1..n |->
                       NatColumn(a, b, k,
                                 IF k > Len(b) THEN k + 1 - Len(b) ELSE 1,
                                 IF k < Len(a) THEN k ELSE Len(a))]
             low == [k \in 1..n |-> col[k] % Base]
             mid == [k \in 1..(n + 1) |->
                       IF k = 1 THEN 0 ELSE (col[k - 1] \div Base) % Base]
             high == [k \in 1..(n + 2) |->
                        IF k <= 2 THEN 0 ELSE col[k - 2] \div (Base * Base)]
         IN  NatAdd(NatAdd(low, mid), high)

\* a * k for 0 <= k <= 200000
NatMulSmall(a, k) == NatMul(a, NatOf(k))

\* floor(a / k) for 0 < k <= 200000
RECURSIVE NatDivSmallFrom(_, _, _, _)
NatDivSmallFrom(a, k, i, rem) ==
    IF i = 0 THEN <<>>
    ELSE LET cur == rem * Base + a[i]
         IN  NatDivSmallFrom(a, k, i - 1, cur % k) \o <<cur \div k>>

NatDivSmall(a, k) == NatStrip(NatDivSmallFrom(a, k, Len(a), 0))

\* the natural number of a magnitude of at most two limbs
NatValue(a) == LimbAt(a, 1) + Base * LimbAt(a, 2)

\* a without its i least significant limbs
NatShiftDown(a, i) == IF Len(a) > i THEN SubSeq(a, i + 1, Len(a)) ELSE <<>>

\* a followed by i zero limbs at its low end
NatShiftUp(a, i) ==
    IF a = <<>> THEN <<>> ELSE [j \in 1..i |-> 0] \o a

Dec(neg, mag) == [neg |-> neg /\ mag # <<>>, mag |-> mag]
DecZero == Dec(FALSE, <<>>)
\* the integer n
DecInt(n) == Dec(n < 0, NatShiftUp(NatOf(Abs(n)), FracLimbs))
DecOne == DecInt(1)
\* the decimal 0.f1 f2 f3 of three groups of four digits
DecFrac(f1, f2, f3) == Dec(FALSE, NatStrip(<<f3, f2, f1>>))

DecNeg(x) == Dec(~x.neg, x.mag)
DecAbs(x) == Dec(FALSE, x.mag)
DecLt(x, y) ==
    IF x.neg # y.neg THEN x.neg
    ELSE IF x.neg THEN NatLt(y.mag, x.mag)
    ELSE NatLt(x.mag, y.mag)

DecAdd(x, y) ==
    IF x.neg = y.neg THEN Dec(x.neg, NatAdd(x.mag, y.mag))
    ELSE IF NatLt(x.mag, y.mag) THEN Dec(y.neg, NatSub(y.mag, x.mag))
    ELSE Dec(x.neg, NatSub(x.mag, y.mag))

DecSub(x, y) == DecAdd(x, DecNeg(y))

DecMul(x, y) ==
    Dec(x.neg # y.neg, NatShiftDown(NatMul(x.mag, y.mag), FracLimbs))

\* x / k for an integer 0 < k <= 200000
DecDivSmall(x, k) == Dec(x.neg, NatDivSmall(x.mag, k))

\* 1 / y for 1 <= y < 100: Newton's iteration g := g * (2 - y * g) from
\* the quotient of the leading digits, until g stays or the steps are used
RECURSIVE DecRecipFrom(_, _, _)
RECURSIVE DecRecipNext(_, _, _, _)
DecRecipNext(y, g, next, steps) ==
    IF steps = 0 \/ next = g THEN g ELSE DecRecipFrom(y, next, steps - 1)

DecRecipFrom(y, g, steps) ==
    DecRecipNext(y, g, DecMul(g, DecSub(DecInt(2), DecMul(y, g))), steps)

NewtonSteps == 4

DecRecip(y) ==
    DecRecipFrom(y,
                 Dec(FALSE,
                     NatShiftUp(NatOf((Base * Base) \div
                                    NatValue(NatShiftDown(y.mag,
                                                          FracLimbs - 1))),
                                FracLimbs - 1)),
                 NewtonSteps)

\* ln 2
DecLn2 == DecFrac(6931, 4718, 560)

\* 1 / ln 2
DecInvLn2 == DecAdd(DecOne, DecFrac(4426, 9504, 889))

\* the sum of the series of exp(-r) from the term of n on: sum holds the
\* terms before n and term the term of n - 1; it ends with a term of 0
RECURSIVE DecExpSeries(_, _, _, _)
RECURSIVE DecExpSeriesNext(_, _, _, _)
DecExpSeriesNext(r, sum, next, n) ==
    IF next = DecZero THEN sum
    ELSE DecExpSeries(r, DecAdd(sum, next), next, n + 1)

DecExpSeries(r, sum, term, n) ==
    DecExpSeriesNext(r, sum, DecNeg(DecDivSmall(DecMul(term, r), n)), n)

\* x / 2^k for 0 <= x <= 1: 0 to twelve decimals from k = 40 on
RECURSIVE DecHalve(_, _)
DecHalve(x, k) ==
    IF k >= 40 THEN DecZero
    ELSE IF k > 16 THEN DecHalve(DecDivSmall(x, Pow2(16)), k - 16)
    ELSE DecDivSmall(x, Pow2(k))

DecSquare(x) == IF x = DecZero THEN DecZero ELSE DecMul(x, x)

\* exp(-r) for 0 <= r < 1: the eighth power of exp(-r / 8)
DecExpSmall(r) ==
    DecSquare(DecSquare(DecSquare(
        DecExpSeries(DecDivSmall(r, 8), DecOne, DecOne, 1))))

\* exp(-(k * ln 2 + r)) for r >= -ln 2: a negative r takes one from k
DecExpParts(r, k) ==
    DecHalve(DecExpSmall(IF r.neg THEN DecAdd(r, DecLn2) ELSE r),
             IF r.neg THEN k - 1 ELSE k)

\* exp(-w) with k the whole part of w / ln 2
DecExpReduce(w, k) == DecExpParts(DecSub(w, DecMul(DecInt(k), DecLn2)), k)

\* Math.exp(-w) for 0 <= w < 20000: exp(-r) / 2^k for w = k * ln 2 + r with
\* 0 <= r < ln 2; the rounding of w / ln 2 can make k one too large
DecExpNeg(w) ==
    DecExpReduce(w, NatValue(NatShiftDown(DecMul(w, DecInvLn2).mag,
                                          FracLimbs)))

(***************************************************************************)
(* normalCDF and calculatePValueFromZ to twelve decimals.                  *)
(***************************************************************************)
\* the constants of normalCDF, digit for digit
dec_p == DecFrac(3275, 9110, 0)
dec_a1 == DecFrac(2548, 2959, 2000)
dec_a2 == DecNeg(DecFrac(2844, 9673, 6000))
dec_a3 == DecAdd(DecOne, DecFrac(4214, 1374, 1000))
dec_a4 == DecNeg(DecAdd(DecOne, DecFrac(4531, 5202, 7000)))
dec_a5 == DecAdd(DecOne, DecFrac(614, 542, 9000))
\* Math.sqrt(2)
DecSqrt2 == DecAdd(DecOne, DecFrac(4142, 1356, 2373))
\* 1 / Math.sqrt(2)
DecInvSqrt2 == DecRecip(DecSqrt2)
DecHalf == DecFrac(5000, 0, 0)

\* (acc + coeff) * t, one step of the polynomial
polynomialStep(acc, coeff, t) ==
    IF acc = DecZero THEN DecMul(coeff, t) ELSE DecMul(DecAdd(acc, coeff), t)

\* (((((a5 * t + a4) * t) + a3) * t + a2) * t + a1) * t
erfPolynomial(t) ==
    polynomialStep(polynomialStep(polynomialStep(polynomialStep(
        DecMul(dec_a5, t), dec_a4, t), dec_a3, t), dec_a2, t), dec_a1, t)

\* erf from t and exp(-z * z): 1 - poly(t) * expo; a factor of 0 leaves 1
erfFrom(t, expo) ==
    IF t = DecZero \/ expo = DecZero THEN DecOne
    ELSE DecSub(DecOne, DecMul(erfPolynomial(t), expo))

\* the erf of normalCDF for z >= 0
erfOfAbs(z) ==
    erfFrom(DecRecip(DecAdd(DecOne, DecMul(dec_p, z))),
            DecExpNeg(DecMul(z, z)))

\* 0.5 * (1.0 + sign * erf)
cdfFrom(sign, erf) ==
    IF erf = DecZero THEN DecHalf
    ELSE DecMul(DecHalf, DecAdd(DecOne, DecMul(sign, erf)))

\* a slip: z > 0 in place of z >= 0
cdfOfZ_strictSign(z) ==
    cdfFrom(IF DecLt(DecZero, z) THEN DecOne ELSE DecNeg(DecOne),
            erfOfAbs(DecAbs(z)))

\* sign and erf of z, and the cdf of them
cdfOfZ(z) ==
    cdfFrom(IF ~DecLt(z, DecZero) THEN DecOne ELSE DecNeg(DecOne),
            erfOfAbs(DecAbs(z)))

\* normalCDF(x) for a finite x
normalCDFDec(x) == cdfOfZ(DecMul(x, DecInvSqrt2))

\* Number.prototype.toFixed(4) of a decimal: rounded to the nearest
\* ten-thousandth
toFixed4Dec(x) ==
    LET rounded == NatAdd(x.mag, NatShiftUp(<<Base \div 2>>, FracLimbs - 2))
        whole == NatValue(NatShiftDown(rounded, FracLimbs))
        frac == LimbAt(rounded, FracLimbs)
    IN  (IF x.neg THEN <<"-">> ELSE <<>>)
            \o IntText(whole) \o <<".">>
            \o <<DigitChars[(frac \div 1000) + 1],
                 DigitChars[((frac \div 100) % 10) + 1],
                 DigitChars[((frac \div 10) % 10) + 1],
                 DigitChars[(frac % 10) + 1]>>

\* 0.0001
DecThreshold == DecFrac(1, 0, 0)

\* 2 * (1 - cdf)
twoTailedFrom(cdf) ==
    IF cdf = DecOne THEN DecZero ELSE DecMul(DecInt(2), DecSub(DecOne, cdf))

\* 2 * (1 - normalCDF(absZ))
twoTailedP(absZ) == twoTailedFrom(normalCDFDec(absZ))

\* p < 0.0001 ? '<0.0001' : p.toFixed(4)
pValueText(pv) ==
    IF DecLt(pv, DecThreshold) THEN BelowThreshold ELSE toFixed4Dec(pv)

\* a slip: Math.abs is left out
calculatePValueFromZDec_signed(z) == pValueText(twoTailedP(z))

\* calculatePValueFromZ(z) for a finite z
calculatePValueFromZDec(z) == pValueText(twoTailedP(DecAbs(z)))

(***************************************************************************)
(* Numbers with an exponent.  calculateRequiredSampleSize squares a        *)
(* difference of proportions, and a double has a least positive value:     *)
(* its arguments and intermediate values are decimals m * 10^e with a      *)
(* mantissa m of MantDigits digits, kept within the range of a double      *)
(* (about 4.94e-324 .. 1.797e308): a result below half the least positive  *)
(* double is 0 and one above the greatest double is Infinity.              *)
(***************************************************************************)
MantDigits == 4
\* the decimal exponents of the least positive and the greatest double
MinExp10 == -324
MaxExp10 == 308
\* their leading digits: half of 4.94e-324, and 1.797e308
HalfMinLead == 2470
MaxLead == 1797

Flt(m, e) == [k |-> "num", m |-> m, e |-> e]
FltZero == Flt(0, 0)
FltNaN == [k |-> "nan", m |-> 0, e |-> 0]
FltInf(neg) == [k |-> IF neg THEN "-inf" ELSE "+inf", m |-> 0, e |-> 0]
\* the return value null
FltNull == [k |-> "null", m |-> 0, e |-> 0]

RECURSIVE Pow10(_)
Pow10(n) == IF n = 0 THEN 1 ELSE 10 * Pow10(n - 1)

\* MantMin <= |m| < MantMax for a nonzero mantissa m
MantMin == Pow10(MantDigits - 1)
MantMax == Pow10(MantDigits)

\* m * 10^e with the mantissa brought to MantDigits digits (the last digit
\* rounded to the nearest) and the value to the range of a double
RECURSIVE FltNorm(_, _)
FltNorm(m, e) ==
    IF m = 0 THEN FltZero
    ELSE IF Abs(m) >= 10 * MantMax
    THEN FltNorm(IF m < 0 THEN -((-m) \div 10) ELSE m \div 10, e + 1)
    ELSE IF Abs(m) >= MantMax
    THEN FltNorm(IF m < 0 THEN -((5 - m) \div 10) ELSE (m + 5) \div 10, e + 1)
    ELSE IF Abs(m) < MantMin
    THEN FltNorm(m * 10, e - 1)
    ELSE LET lead == e + MantDigits - 1
         IN  IF lead > MaxExp10 \/ (lead = MaxExp10 /\ Abs(m) > MaxLead)
             THEN FltInf(m < 0)
             ELSE IF lead < MinExp10
                      \/ (lead = MinExp10 /\ Abs(m) < HalfMinLead)
             THEN FltZero
             ELSE Flt(m, e)

FltInt(n) == FltNorm(n, 0)
FltIsNaN(x) == x.k = "nan"
FltIsInf(x) == x.k \in {"+inf", "-inf"}
FltNegative(x) == x.k = "-inf" \/ (x.k = "num" /\ x.m < 0)
FltNeg(x) ==
    CASE x.k = "num" -> Flt(-x.m, x.e)
      [] x.k = "+inf" -> FltInf(TRUE)
      [] x.k = "-inf" -> FltInf(FALSE)
      [] OTHER -> x

\* x + y for finite x and y with x.e >= y.e: a y more than MantDigits + 1
\* digits below x does not change the rounded sum
FltAddAligned(x, y) ==
    IF x.m = 0 THEN y
    ELSE IF y.m = 0 \/ x.e - y.e > MantDigits + 1 THEN x
    ELSE FltNorm(x.m * Pow10(x.e - y.e) + y.m, y.e)

FltAdd(x, y) ==
    CASE FltIsNaN(x) \/ FltIsNaN(y) -> FltNaN
      [] FltIsInf(x) /\ FltIsInf(y) -> IF x = y THEN x ELSE FltNaN
      [] FltIsInf(x) -> x
      [] FltIsInf(y) -> y
      [] OTHER -> IF x.e >= y.e THEN FltAddAligned(x, y)
                  ELSE FltAddAligned(y, x)

FltSub(x, y) == FltAdd(x, FltNeg(y))

FltMul(x, y) ==
    CASE FltIsNaN(x) \/ FltIsNaN(y) -> FltNaN
      [] FltIsInf(x) \/ FltIsInf(y) ->
            IF x = FltZero \/ y = FltZero THEN FltNaN
            ELSE FltInf(FltNegative(x) # FltNegative(y))
      [] OTHER -> FltNorm(x.m * y.m, x.e + y.e)

FltDiv(x, y) ==
    CASE FltIsNaN(x) \/ FltIsNaN(y) -> FltNaN
      [] FltIsInf(x) ->
            IF FltIsInf(y) THEN FltNaN
            ELSE FltInf(FltNegative(x) # FltNegative(y))
      [] FltIsInf(y) -> FltZero
      [] y = FltZero ->
            IF x = FltZero THEN FltNaN ELSE FltInf(FltNegative(x))
      [] OTHER ->
            LET q == (Abs(x.m) * Pow10(MantDigits + 1)) \div Abs(y.m)
            IN  FltNorm(IF (x.m < 0) # (y.m < 0) THEN -q ELSE q,
                        x.e - y.e - (MantDigits + 1))

FltSqrt(x) ==
    CASE FltIsNaN(x) \/ FltNegative(x) -> FltNaN
      [] FltIsInf(x) -> x
      [] x = FltZero -> FltZero
      [] OTHER ->
            LET odd == x.e % 2 = 1
                m == IF odd THEN x.m * 10 ELSE x.m
                e == IF odd THEN x.e - 1 ELSE x.e
            IN  FltNorm(ISqrt(m * Pow10(MantDigits)),
                        (e - MantDigits) \div 2)

\* whether a finite x is a whole number
FltIsInteger(x) ==
    x.k = "num" /\ (x.m = 0 \/ x.e >= 0 \/
                    (x.e > -MantDigits /\ x.m % Pow10(-x.e) = 0))

\* Math.ceil
Math_ceil(x) ==
    IF x.k # "num" \/ FltIsInteger(x) THEN x
    ELSE IF x.e <= -MantDigits
    THEN IF x.m > 0 THEN FltInt(1) ELSE FltZero
    ELSE FltInt(-((-x.m) \div Pow10(-x.e)))

(***************************************************************************)
(* calculateRequiredSampleSize.                                            *)
(***************************************************************************)
\* 1.96 and 0.8416
size_z_alpha_half == FltNorm(196, -2)
size_z_beta == FltNorm(8416, -4)

\* (Math.pow(term1 + term2, 2)) / Math.pow(p1 - p2, 2) before Math.ceil
sizeNumerator(p1, p2) ==
    LET p_pooled == FltDiv(FltAdd(p1, p2), FltInt(2))
        term1 == FltMul(size_z_alpha_half,
                        FltSqrt(FltMul(FltMul(FltInt(2), p_pooled),
                                       FltSub(FltInt(1), p_pooled))))
        term2 == FltMul(size_z_beta,
                        FltSqrt(FltAdd(FltMul(p1, FltSub(FltInt(1), p1)),
                                       FltMul(p2, FltSub(FltInt(1), p2)))))
    IN  FltMul(FltAdd(term1, term2), FltAdd(term1, term2))

sizeDenominator(p1, p2) == FltMul(FltSub(p1, p2), FltSub(p1, p2))

\* a slip: the denominator is not tested
calculateRequiredSampleSize_noZeroTest(p1, p2) ==
    IF p1 = p2 \/ FltIsNaN(p1) \/ FltIsNaN(p2)
    THEN FltNull
    ELSE Math_ceil(FltDiv(sizeNumerator(p1, p2), sizeDenominator(p1, p2)))

calculateRequiredSampleSize(p1, p2) ==
    IF p1 = p2 \/ FltIsNaN(p1) \/ FltIsNaN(p2)
    THEN FltNull
    ELSE IF sizeDenominator(p1, p2) = FltZero
    THEN FltNull
    ELSE Math_ceil(FltDiv(sizeNumerator(p1, p2), sizeDenominator(p1, p2)))

(***************************************************************************)
(* The functions of the file applied on their own: one application from    *)
(* each argument of a grid.  The App is left in its initial state.         *)
(***************************************************************************)
\* the arguments i / ZSteps for i in -MaxZ .. MaxZ
ZSteps == 20
MaxZ == 100
ZValues == {DecDivSmall(DecInt(i), ZSteps) : i \in (-MaxZ)..MaxZ}

\* proportions: 0, 1, some between, some whose differences have a square
\* below the least positive double, and NaN
PValues ==
    {FltZero, FltInt(1), FltNorm(5, -1), FltNorm(2, -1), FltNorm(5, -2),
     FltNorm(1, -100), FltNorm(1, -161), FltNorm(1, -162), FltNorm(2, -162),
     FltNorm(1, -200), FltNorm(3, -200), FltNaN}

\* the applications not yet made, function by function
pendingNormalCDF ==
    {[fn |-> "normalCDF", arg |-> x, done |-> FALSE, out |-> DecZero] :
        x \in ZValues}
pendingPValue ==
    {[fn |-> "calculatePValueFromZ", arg |-> z, done |-> FALSE,
      out |-> <<>>] : z \in ZValues}
pendingSampleSize ==
    {[fn |-> "calculateRequiredSampleSize", arg |-> <<p1, p2>>,
      done |-> FALSE, out |-> FltNull] : p1 \in PValues, p2 \in PValues}

InitFn ==
    /\ inputs = initialInputs
    /\ studyGoal = nullStr
    /\ studyDesign = nullStr
    /\ aiModel = "gemini-2.5-flash"
    /\ results = null
    /\ error = noError
    /\ isCalculating = FALSE
    /\ isInterpreting = FALSE
    /\ aiInterpretation = null
    /\ aiNarrativeSummary = null
    /\ currentPage = "calculator"
    /\ language = "en"
    /\ requests = EmptyBag
    /\ \/ call \in pendingNormalCDF
       \/ call \in pendingPValue
       \/ call \in pendingSampleSize

appVars == <<inputs, studyGoal, studyDesign, aiModel, results, error,
             isCalculating, isInterpreting, aiInterpretation,
             aiNarrativeSummary, currentPage, language, requests>>

applyNormalCDF ==
    /\ call.fn = "normalCDF"
    /\ ~call.done
    /\ call' = [call EXCEPT !.done = TRUE, !.out = normalCDFDec(call.arg)]
    /\ UNCHANGED appVars

applyCalculatePValueFromZ ==
    /\ call.fn = "calculatePValueFromZ"
    /\ ~call.done
    /\ call' = [call EXCEPT !.done = TRUE,
                            !.out = calculatePValueFromZDec(call.arg)]
    /\ UNCHANGED appVars

applyCalculateRequiredSampleSize ==
    /\ call.fn = "calculateRequiredSampleSize"
    /\ ~call.done
    /\ call' = [call EXCEPT
                  !.done = TRUE,
                  !.out = calculateRequiredSampleSize(call.arg[1],
                                                      call.arg[2])]
    /\ UNCHANGED appVars

NextFn ==
    \/ applyNormalCDF
    \/ applyCalculatePValueFromZ
    \/ applyCalculateRequiredSampleSize

SpecFn == InitFn /\ [][NextFn]_vars

Returned(fn) == call.fn = fn /\ call.done

\* C18 as stated: normalCDF(0) is 0.5
C18_CdfZeroIsHalf ==
    (Returned("normalCDF") /\ call.arg = DecZero) => call.out = DecHalf

\* C18: normalCDF(0) is 0.5000000005, which is 0.5 to within 0.000001 (the
\* five coefficients of the approximation add up to 0.999999999, not to 1)
C18_CdfZeroNearHalf ==
    (Returned("normalCDF") /\ call.arg = DecZero) =>
        /\ call.out = DecFrac(5000, 0, 500)
        /\ DecLt(DecHalf, call.out)
        /\ DecLt(DecSub(call.out, DecHalf), DecFrac(0, 100, 0))

C18_Witness ==
    /\ Returned("normalCDF")
    /\ call.arg = DecZero
    /\ call.out # DecHalf

\* C19: calculatePValueFromZ(z) returns '<0.0001' exactly when
\* p = 2 * (1 - normalCDF(|z|)) is below 0.0001 and p to four decimals
\* otherwise; it returns the same for z and for -z
C19_PValueText ==
    Returned("calculatePValueFromZ") =>
        LET pv == twoTailedP(DecAbs(call.arg))
        IN  /\ call.out = BelowThreshold <=> DecLt(pv, DecThreshold)
            /\ ~DecLt(pv, DecThreshold) => call.out = toFixed4Dec(pv)
            /\ call.out = calculatePValueFromZDec(DecNeg(call.arg))

C19_Witness ==
    /\ Returned("calculatePValueFromZ")
    /\ call.arg.neg
    /\ call.out = BelowThreshold
    /\ ~DecLt(twoTailedP(call.arg), DecThreshold)

C19_WitnessDecimals ==
    /\ Returned("calculatePValueFromZ")
    /\ call.arg.neg
    /\ call.out = <<"0", ".", "0", "0", "0", "1">>

\* a proportion: a number of 0..1
InUnit(p) ==
    p.k = "num" /\ p.m >= 0 /\ ~FltNegative(FltSub(FltInt(1), p))

PositiveInteger(x) == x.k = "num" /\ x.m > 0 /\ FltIsInteger(x)

\* p1 and p2 are different numbers whose difference has the square 0:
\* the square lies below the least positive double
SquareUnderflows(p1, p2) ==
    /\ p1.k = "num"
    /\ p2.k = "num"
    /\ p1 # p2
    /\ FltMul(FltSub(p1, p2), FltSub(p1, p2)) = FltZero

\* C20 as stated: calculateRequiredSampleSize(p1, p2) is null exactly when
\* p1 = p2 or an argument is NaN, and a positive integer for different
\* p1, p2 of 0..1
C20_NullOnlyEqualOrNaN ==
    Returned("calculateRequiredSampleSize") =>
        LET p1 == call.arg[1]
            p2 == call.arg[2]
        IN  /\ call.out = FltNull
                <=> (p1 = p2 \/ FltIsNaN(p1) \/ FltIsNaN(p2))
            /\ (p1 # p2 /\ InUnit(p1) /\ InUnit(p2))
                => PositiveInteger(call.out)

\* C20: calculateRequiredSampleSize(p1, p2) is null exactly when p1 = p2,
\* an argument is NaN, or the square of p1 - p2 is 0 in doubles although
\* p1 # p2; for all other p1, p2 of 0..1 it is a positive integer
C20_NullAlsoOnUnderflow ==
    Returned("calculateRequiredSampleSize") =>
        LET p1 == call.arg[1]
            p2 == call.arg[2]
        IN  /\ call.out = FltNull
                <=> (p1 = p2 \/ FltIsNaN(p1) \/ FltIsNaN(p2)
                        \/ SquareUnderflows(p1, p2))
            /\ (p1 # p2 /\ InUnit(p1) /\ InUnit(p2)
                    /\ ~SquareUnderflows(p1, p2))
                => PositiveInteger(call.out)

C20_Witness ==
    /\ Returned("calculateRequiredSampleSize")
    /\ call.arg = <<FltZero, FltNorm(1, -200)>>
    /\ call.out = FltNull

C20_WitnessInteger ==
    /\ Returned("calculateRequiredSampleSize")
    /\ call.arg = <<FltZero, FltInt(1)>>
    /\ call.out = FltInt(2)

(***************************************************************************)
(* Further properties of the calculation, checked under SpecCalc: the      *)
(* validation of the cells, the infinite z statistic and the error rates.  *)
(***************************************************************************)
\* the text of an integer >= 0: one or more digits and nothing else
IntegerText(s) == Len(s) > 0 /\ \A i \in 1..Len(s) : DigitValue(s[i]) >= 0

\* C23 as stated: handleCalculate rejects every cell input that is
\* non-integer, negative or missing: whenever some cell holds such a text,
\* results stays null, no metric is computed and isCalculating is false.
C23_InvalidInputRejected ==
    (\E k \in Cells : ~IntegerText(inputs[k])) =>
        /\ results = null
        /\ ~isCalculating

\* the exposed group has no event, the control group has one, and the
\* relative risk block of handleCalculate is reached
ZeroExposedRisk ==
    /\ Calculated
    /\ IncidenceDesign(studyDesign)
    /\ BothTotalsPositive
    /\ cellA = 0
    /\ cellC > 0

\* rr = 0 with both limits 0, an infinite z and the least p-value text
ZeroRelativeRisk(rr) ==
    /\ rr # null
    /\ rr.value = Exact(RZero)
    /\ rr.lower = Fx(0)
    /\ rr.upper = Fx(0)
    /\ rr.zStat = NegInfinity
    /\ rr.pValue = BelowThreshold

\* C24 as stated: normalCDF(+Infinity) = 1 and normalCDF(-Infinity) = 0, so
\* that for a = 0 and c > 0 relativeRisk is non-null with value 0, lower =
\* upper = 0, zStat = -Infinity and pValue '<0.0001'.
C24_ZeroExposedAlways ==
    /\ normalCDF(PosInfinity) = FOne
    /\ normalCDF(NegInfinity) = Fx(0)
    /\ (Calculated /\ cellA = 0 /\ cellC > 0) =>
            ZeroRelativeRisk(results.relativeRisk)

\* C24: normalCDF(+Infinity) = 1 and normalCDF(-Infinity) = 0, neither NaN,
\* so that for a = 0, b > 0, c > 0 and a design other than case-control
\* relativeRisk is non-null with value 0, lower = upper = 0, zStat =
\* -Infinity and pValue '<0.0001', none of them NaN.
C24_ZeroExposedRelativeRisk ==
    /\ normalCDF(PosInfinity) = FOne
    /\ normalCDF(NegInfinity) = Fx(0)
    /\ ZeroExposedRisk => ZeroRelativeRisk(results.relativeRisk)

\* a cohort table with a = 0 whose relative risk is stored
C24_Witness ==
    /\ ZeroExposedRisk
    /\ studyDesign = "cohort-prospective"
    /\ cellB = 2
    /\ cellC = 1
    /\ results.relativeRisk # null
    /\ ~IsNaN(results.relativeRisk.zStat)

\* C26: in every result type1Error is non-null, with value 0.05, exactly
\* when the design is not case-control and both group totals are > 0, which
\* is exactly when riskDifference is non-null, whether or not power is
\* computed; and power is non-null exactly when type2Error is non-null.
C26_ErrorRates ==
    Calculated =>
        /\ results.type1Error # null
            <=> (IncidenceDesign(studyDesign) /\ BothTotalsPositive)
        /\ results.type1Error # null <=> results.riskDifference # null
        /\ results.type1Error # null
            => results.type1Error.value = Exact(<<1, 20>>)
        /\ results.power # null <=> results.type2Error # null

\* a result whose type I error is stored although power is not computed
C26_Witness ==
    /\ Calculated
    /\ results.type1Error # null
    /\ results.power = null
    /\ results.riskDifference # null

\* a result with equal risks, whose power is the type I error rate
C26_WitnessNoDifference ==
    /\ Calculated
    /\ BothTotalsPositive
    /\ rdSign = 0
    /\ results.power # null
    /\ results.type2Error # null

(***************************************************************************)
(* Properties of the AI requests, checked under SpecAi.                    *)
(***************************************************************************)
\* the results handleCalculate computes from a table, a design and a goal
resultsOf(table, design, goal) ==
    computeMetrics(parseInt(table.a).v, parseInt(table.b).v,
                   parseInt(table.c).v, parseInt(table.d).v, design, goal)

\* the table of a request holds four valid counts
validTable(table) == \A k \in Cells : ~invalidValue(parseInt(table[k]))

\* C21 as stated: whenever handleRequestReport or handleRequestSummary
\* sends an AI request, the table counts, the design and the goal sent with
\* the results are the ones handleCalculate computed those results from.
C21_RequestMatchesResults ==
    \A request \in BagToSet(requests) :
        /\ validTable(request.currentInputs)
        /\ request.currentResults =
                resultsOf(request.currentInputs, request.design, request.goal)

\* the text is an answer of the model (not null, empty or a failure message)
isResponse(text) == text # null /\ text.text = "response"

\* C22 as stated: in every reachable state a non-null aiInterpretation or
\* aiNarrativeSummary was generated for the currently selected language.
C22_TextInCurrentLanguage ==
    \A text \in {aiInterpretation, aiNarrativeSummary} :
        isResponse(text) => text.lang = language

\* C25 as stated: after a report (summary) request has failed, invoking
\* handleRequestReport (handleRequestSummary) again from the calculator,
\* with results and language unchanged, issues a new AI request.
C25_RetryAfterFailure ==
    [][/\ (aiInterpretation = failedReport /\ handleRequestReport)
            => inFlight' = inFlight + 1
       /\ (aiNarrativeSummary = failedSummary /\ handleRequestSummary)
            => inFlight' = inFlight + 1]_vars

\* C28 as stated: any non-null aiInterpretation or aiNarrativeSummary was
\* generated from the current results; no AI text is held while results is
\* null.
C28_TextFromCurrentResults ==
    \A text \in {aiInterpretation, aiNarrativeSummary} :
        /\ text # null => results # null
        /\ isResponse(text) => text.currentResults = results

\* C29 as stated: isInterpreting is true in every state in which an AI
\* request is still in flight and false once none is.
C29_InterpretingWhileInFlight == isInterpreting <=> inFlight > 0

\* a request is added to the requests awaited
requestIssued == inFlight' = inFlight + 1

\* the step leaves the calculator for a page: handleRequestReport opens
\* 'interpretation', handleRequestSummary 'narrativeSummary', nothing else does
opensPage(page) == currentPage = "calculator" /\ currentPage' = page

\* nothing but currentPage changes
onlyPageChanges ==
    UNCHANGED <<inputs, studyGoal, studyDesign, aiModel, results, error,
                isCalculating, isInterpreting, aiInterpretation,
                aiNarrativeSummary, language, requests>>

\* results, studyGoal or studyDesign is null
formIncomplete ==
    results = null \/ studyGoal = nullStr \/ studyDesign = nullStr

\* C27 as stated: handleRequestReport (handleRequestSummary) issues an AI
\* request only when results, studyGoal and studyDesign are non-null and the
\* cached aiInterpretation (aiNarrativeSummary) is null.
C27_RequestOnlyWithoutText ==
    [][/\ (opensPage("interpretation") /\ requestIssued)
            => (~formIncomplete /\ aiInterpretation = null)
       /\ (opensPage("narrativeSummary") /\ requestIssued)
            => (~formIncomplete /\ aiNarrativeSummary = null)]_vars

\* C27: handleRequestReport (handleRequestSummary) issues an AI request
\* only when results, studyGoal and studyDesign are non-null and the cached
\* aiInterpretation (aiNarrativeSummary) is null or the empty string, and
\* then it sets isInterpreting; with a non-empty cached text it changes
\* currentPage alone; and while results, studyGoal or studyDesign is null
\* no request is issued and neither page is opened.
C27_RequestOnlyWithoutUsableText ==
    [][/\ requestIssued =>
            /\ ~formIncomplete
            /\ isInterpreting'
            /\ opensPage("interpretation") \/ opensPage("narrativeSummary")
       /\ opensPage("interpretation") =>
            IF falsy(aiInterpretation)
            THEN requestIssued /\ aiInterpretation' = aiInterpretation
            ELSE onlyPageChanges
       /\ opensPage("narrativeSummary") =>
            IF falsy(aiNarrativeSummary)
            THEN requestIssued /\ aiNarrativeSummary' = aiNarrativeSummary
            ELSE onlyPageChanges
       /\ formIncomplete =>
            /\ ~requestIssued
            /\ ~opensPage("interpretation")
            /\ ~opensPage("narrativeSummary")]_vars

\* the report page opened on a cached text, nothing awaited
C27_Witness ==
    /\ currentPage = "interpretation"
    /\ isResponse(aiInterpretation)
    /\ ~isInterpreting
    /\ inFlight = 0

\* the report asked for again while the cached text is the empty string
C27_WitnessEmptyText ==
    /\ currentPage = "interpretation"
    /\ aiInterpretation = emptyText
    /\ isInterpreting
    /\ inFlight = 1

\* C30, checked under Spec: error and results are never both non-null;
\* every handleCalculate discards the previous results, error and AI texts
\* and ends with exactly one of error and results set, the results being
\* those of the present form, and with isCalculating false.
C30_ErrorOrResults ==
    /\ [](error = noError \/ results = null)
    /\ [][(UNCHANGED <<inputs, studyGoal, studyDesign, language, currentPage>>
            /\ handleCalculate) =>
            /\ aiInterpretation' = null
            /\ aiNarrativeSummary' = null
            /\ ~isCalculating'
            /\ (error' = noError) # (results' = null)
            /\ results' # null =>
                    /\ validTable(inputs)
                    /\ results' = resultsOf(inputs, studyDesign, studyGoal)
            /\ error' # noError => ~validTable(inputs)]_vars

\* the error of a calculation whose cell b was empty, shown in Ukrainian
\* with no results
C30_Witness ==
    /\ error = errorInvalidNumber("uk", "b")
    /\ results = null
    /\ ~isCalculating
    /\ inputs.a = <<"1">>

\* results of a calculation with no error, the form edited since
C30_WitnessResults ==
    /\ error = noError
    /\ results # null
    /\ results.oddsRatio # null
    /\ inputs.b = <<>>

=============================================================================
